---- MODULE Spec2Model ----
(***************************************************************************)
(* QUIK Downloader: the settings store (core/file_handler.py), the         *)
(* download orchestrator (core/downloader.py), the main menu and its       *)
(* download session (ui/menu.py), the settings submenu                     *)
(* (ui/settings_manager.py), the editor launcher (utils/file_editor.py)    *)
(* and the entry point (main.py), as state machines.                       *)
(*                                                                         *)
(* Text is modelled as a sequence of chunks; a chunk is a piece of text    *)
(* that the code never splits (a scheme prefix, a host name, a blank).     *)
(***************************************************************************)
EXTENDS Naturals, Sequences, FiniteSets

VARIABLES
    pc,            \* control position of the process
    settings_file, \* the file settings.ini
    settings,      \* SettingsManager.settings, the in-memory record
    reads,         \* history of the read_settings / read_urls calls of a harness
    urls_file,     \* the file URLs.txt
    urls,          \* download_videos: the list read for this session
    idx,           \* download_videos: 1-based position of the loop
    successful,    \* download_videos: counter
    failed,        \* download_videos: counter
    probes,        \* version queries made in this session: command, outcome
    processed,     \* URLs handed to download_video in this session, in order
    dl,            \* the VideoDownloader object and the download directory
    job,           \* the download_video call in progress or last returned
    inv,           \* external-tool invocations made by the current job
    now,           \* wall clock, in ticks
    started,       \* tick at which the running subprocess was started
    paths,         \* output paths derived by the jobs of this session, in order
    edit,          \* file_editor: the editor commands tried by the last call
    platform,      \* platform.system() of the machine
    exit_info,     \* how the process ended: exit status and cause
    dirs,          \* the download directories that exist on disk
    typed          \* what the user typed at the prompts of the action in progress

vars == <<pc, settings_file, settings, reads, urls_file, urls, idx, successful,
          failed, probes, processed, dl, job, inv, now, started, paths, edit,
          platform, exit_info, dirs, typed>>

----------------------------------------------------------------------------
(* Bounds of the model *)

\* longest URL list file, in lines
MaxLines == 2
\* last tick of the wall clock
MaxClock == 2
\* the 1-hour limit of a download subprocess, scaled to ticks
TimeLimit == 1
\* read_settings calls made by the settings harness
MaxReads == 2

----------------------------------------------------------------------------
(* Text *)

Blank == " "

\* str.lower() of a chunk: the chunks with upper-case letters
lower_chunk(c) ==
    CASE c = "HTTP://" -> "http://"
      [] c = "High" -> "high"
      [] c = "INFO" -> "info"
      [] c = "MKV" -> "mkv"
      [] OTHER -> c

\* str.lower()
Lower(s) == [i \in DOMAIN s |-> lower_chunk(s[i])]

RECURSIVE LStrip(_)
LStrip(s) == IF s # <<>> /\ Head(s) = Blank THEN LStrip(Tail(s)) ELSE s

RECURSIVE RStrip(_)
RStrip(s) ==
    IF s # <<>> /\ s[Len(s)] = Blank THEN RStrip(SubSeq(s, 1, Len(s) - 1)) ELSE s

\* str.strip()
Strip(s) == RStrip(LStrip(s))

\* str.startswith(('http://', 'https://'))
StartsWithScheme(s) == s # <<>> /\ Head(s) \in {"http://", "https://"}

----------------------------------------------------------------------------
(* Settings store: core/file_handler.py *)

Keys == {"download_directory", "video_quality", "output_format", "ffmpeg_path"}

default_settings ==
    [k \in Keys |->
        CASE k = "download_directory" -> "./downloads"
          [] k = "video_quality" -> "best"
          [] k = "output_format" -> "mp4"
          [] k = "ffmpeg_path" -> "ffmpeg"]

\* Values a settings file may hold for each key (the file is edited by hand
\* too, so values outside the documented enumerations occur).
FileValues ==
    [k \in Keys |->
        CASE k = "download_directory" -> {"./downloads", "/data"}
          [] k = "video_quality" -> {"best", "high", "medium", "low", "ultra"}
          [] k = "output_format" -> {"mp4", "mkv", "webm"}
          [] k = "ffmpeg_path" -> {"ffmpeg", "/opt/ffmpeg"}]

\* The empty function: a parsed file that holds no key.
NoKeys == [k \in {} |-> ""]

AbsentFile == [kind |-> "absent", section |-> FALSE, kv |-> NoKeys]
\* exists, but open() fails: ConfigParser.read skips it silently
UnreadableFile == [kind |-> "unreadable", section |-> FALSE, kv |-> NoKeys]
\* exists, but ConfigParser.read raises a parsing error
CorruptFile == [kind |-> "corrupt", section |-> FALSE, kv |-> NoKeys]
NoSectionFile == [kind |-> "parsed", section |-> FALSE, kv |-> NoKeys]
SectionFile(kv) == [kind |-> "parsed", section |-> TRUE, kv |-> kv]

\* Every record over a subset of the keys.
PartialRecords ==
    UNION {[ks -> UNION {FileValues[k] : k \in Keys}] : ks \in SUBSET Keys}

SettingsFiles ==
    {AbsentFile, UnreadableFile, CorruptFile, NoSectionFile}
    \cup {SectionFile(kv) : kv \in {r \in PartialRecords :
                                     \A k \in DOMAIN r : r[k] \in FileValues[k]}}

\* write_settings: [ok, file]. open(..., 'w') may fail (wok = FALSE); the
\* failure is caught and reported as False, and the file is left as it was.
write_settings(file, rec, wok) ==
    IF wok THEN [ok |-> TRUE, file |-> SectionFile(rec)]
    ELSE [ok |-> FALSE, file |-> file]

\* Variant: the defaults are returned but never written
create_default_settings_no_write(file, wok) ==
    [ret |-> default_settings, file |-> file, raised |-> FALSE]

\* _create_default_settings: writes the defaults, ignores the result of the
\* write and returns a copy of the defaults.
create_default_settings(file, wok) ==
    LET w == write_settings(file, default_settings, wok)
    IN  [ret |-> default_settings, file |-> w.file, raised |-> FALSE]

\* Variant: no fallback for a key the file does not hold
config_get_no_fallback(kv, k) == IF k \in DOMAIN kv THEN kv[k] ELSE ""

\* config.get('SETTINGS', key, fallback=self.default_settings[key])
config_get(kv, k) == IF k \in DOMAIN kv THEN kv[k] ELSE default_settings[k]

\* The try block of read_settings: [ret, file, raised]. wok: whether a write
\* of the file succeeds during this call.
read_settings_try(file, wok) ==
    IF file.kind # "absent"
    THEN IF file.kind = "corrupt"
         THEN \* config.read raises a parsing error
              [ret |-> NoKeys, file |-> file, raised |-> TRUE]
         ELSE IF file.kind = "parsed" /\ file.section
         THEN [ret |-> [k \in Keys |-> config_get(file.kv, k)],
               file |-> file, raised |-> FALSE]
         ELSE \* no SETTINGS section (an unreadable file parses as empty)
              create_default_settings(file, wok)
    ELSE create_default_settings(file, wok)

\* read_settings: the try block, and `except Exception` returning the defaults.
read_settings(file, wok) ==
    LET r == read_settings_try(file, wok)
    IN  IF r.raised
        THEN [ret |-> default_settings, file |-> r.file, raised |-> FALSE]
        ELSE r

----------------------------------------------------------------------------
(* URL list store: core/file_handler.py *)

AbsentUrls == [kind |-> "absent", lines |-> <<>>]
UrlsText(lines) == [kind |-> "text", lines |-> lines]
\* exists, but cannot be opened or decoded
UnreadableUrls == [kind |-> "unreadable", lines |-> <<>>]

\* The three comment lines written into a new URLs.txt
welcome_lines ==
    << <<"#", "Welcome to QUIK Downloader!">>,
       <<"#", "Add your M3U8 video links here, one per line.">>,
       <<"#", "Lines starting with '#' are ignored.">> >>

\* Variant: the comment mark is looked for in the line as it is
line_kept_unstripped(line) == Strip(line) # <<>> /\ Head(line) # "#"

\* line.strip() and not line.strip().startswith('#')
line_kept(line) == Strip(line) # <<>> /\ Head(Strip(line)) # "#"

RECURSIVE kept_lines(_)
kept_lines(lines) ==
    IF lines = <<>> THEN <<>>
    ELSE (IF line_kept(Head(lines)) THEN <<Strip(Head(lines))>> ELSE <<>>)
         \o kept_lines(Tail(lines))

\* Variant: an absent file is reported as empty but not created
read_urls_no_create(file, wok) ==
    IF file.kind = "text"
    THEN [ret |-> kept_lines(file.lines), file |-> file]
    ELSE [ret |-> <<>>, file |-> file]

\* read_urls: [ret, file]. wok: whether creating the file succeeds.
read_urls(file, wok) ==
    IF file.kind = "absent"
    THEN IF wok THEN [ret |-> <<>>, file |-> UrlsText(welcome_lines)]
         ELSE \* open(..., 'w') raises; caught, returns []
              [ret |-> <<>>, file |-> file]
    ELSE IF file.kind = "unreadable"
    THEN \* open(..., 'r') or the decoding raises; caught, returns []
         [ret |-> <<>>, file |-> file]
    ELSE [ret |-> kept_lines(file.lines), file |-> file]

----------------------------------------------------------------------------
(* Download orchestrator: core/downloader.py *)

Qualities == {"best", "high", "medium", "low", "ultra"}

\* URLs given to download_video: empty, blank, scheme only, well formed,
\* upper-case scheme, another scheme, no scheme, leading blank.
SampleUrls ==
    { <<>>, <<Blank>>, <<"http://">>, <<"https://">>,
      <<"http://", "a.com", "/v.m3u8">>,
      <<"https://", "www.", "a.com", "/v.m3u8">>,
      <<"HTTP://", "b.org", "/v.m3u8">>,
      <<"ftp://", "a.com", "/v.m3u8">>,
      <<"a.com", "/v.m3u8">>,
      <<Blank, "http://", "a.com", "/v.m3u8">> }

\* Variant: only the empty URL is rejected
url_rejected_empty_only(url) == Strip(url) = <<>>

\* Variant: a URL with nothing after its scheme is rejected too
url_rejected_no_body(url) ==
    Strip(url) = <<>> \/ ~StartsWithScheme(Lower(url)) \/ Len(Strip(url)) < 2

\* The test at the head of download_video:
\* not url.strip() or not url.lower().startswith(('http://', 'https://'))
url_rejected(url) == Strip(url) = <<>> \/ ~StartsWithScheme(Lower(url))

IsPathChunk(c) == c = "/v.m3u8"

RECURSIVE UpToPath(_)
UpToPath(s) ==
    IF s = <<>> \/ IsPathChunk(Head(s)) THEN <<>>
    ELSE <<Head(s)>> \o UpToPath(Tail(s))

\* urlparse(url).netloc of a URL that starts with a scheme and //
netloc(url) == IF url = <<>> THEN <<>> ELSE UpToPath(Tail(url))

\* str.replace('www.', '')
replace_www(s) == SelectSeq(s, LAMBDA c : c # "www.")

\* Variant: the host is used as it is written in the URL
generate_output_filename_keep_www(url, output_dir, d, t) ==
    [dir |-> output_dir, host |-> netloc(url), ts |-> t,
     fmt |-> d.output_format]

\* _generate_output_filename: join(output_dir, f"{domain}_{timestamp}.{format}")
generate_output_filename(url, output_dir, d, t) ==
    [dir |-> output_dir, host |-> replace_www(netloc(url)), ts |-> t,
     fmt |-> d.output_format]

\* Variant: a quality outside the map selects no arguments
get_quality_params_no_default(q) ==
    CASE q = "best" -> <<"-c", "copy">>
      [] q = "high" -> <<"-vf", "scale=-2:720", "-c:v", "libx264", "-c:a", "aac">>
      [] q = "medium" -> <<"-vf", "scale=-2:480", "-c:v", "libx264", "-c:a", "aac">>
      [] q = "low" -> <<"-vf", "scale=-2:360", "-c:v", "libx264", "-c:a", "aac">>
      [] OTHER -> <<>>

\* _get_quality_params: quality_map.get(self.video_quality, quality_map['best'])
get_quality_params(q) ==
    CASE q = "high" -> <<"-vf", "scale=-2:720", "-c:v", "libx264", "-c:a", "aac">>
      [] q = "medium" -> <<"-vf", "scale=-2:480", "-c:v", "libx264", "-c:a", "aac">>
      [] q = "low" -> <<"-vf", "scale=-2:360", "-c:v", "libx264", "-c:a", "aac">>
      [] OTHER -> <<"-c", "copy">>

\* _build_ffmpeg_command
build_ffmpeg_command(url, output_path, d) ==
    <<d.ffmpeg_path, "-i", url, "-bsf:a", "aac_adtstoasc", "-y">>
    \o <<"-loglevel", "error", "-stats">>
    \o get_quality_params(d.video_quality)
    \o <<output_path>>

\* fallback_cmd of _try_fallback_download
fallback_cmd(url, output_path, d) ==
    <<d.ffmpeg_path, "-i", url, "-c", "copy", "-bsf:a", "aac_adtstoasc", "-y",
      output_path>>

----------------------------------------------------------------------------
(* One download job: download_video and its subprocesses *)

\* subprocess.Popen: started, FileNotFoundError, or another error
SpawnOutcomes == {"ok", "notfound", "oserror"}

\* state of the output file when the subprocess has ended
FileStates == {"missing", "empty", "nonempty"}

\* How a started subprocess ends: exit code 0 (and the output file it leaves),
\* a non-zero exit code, or an error raised while its output is read.
ExitOutcomes ==
    {[rc |-> "exit0", file |-> f] : f \in FileStates}
    \cup {[rc |-> "exit1", file |-> "unchecked"],
          [rc |-> "readerr", file |-> "unchecked"]}

\* _execute_ffmpeg_command returns return_code == 0; False on any exception
execute_ok(outcome) == outcome = "exit0"

\* Variant: only the existence of the output file is tested
output_exists(file) == file # "missing"

\* os.path.exists(output_path) and os.path.getsize(output_path) > 0
output_verified(file) == file # "missing" /\ file = "nonempty"

\* Variant: the directory is reported usable whether or not it is
ensure_download_directory_unchecked(existing, directory, dirok) ==
    [ret |-> TRUE,
     dirs |-> IF dirok THEN existing \cup {directory} ELSE existing]

\* ensure_download_directory: os.makedirs(directory, exist_ok=True) and a
\* write test; [ret, dirs]. dirok: whether both succeed.
ensure_download_directory(existing, directory, dirok) ==
    [ret |-> dirok,
     dirs |-> IF dirok THEN existing \cup {directory} ELSE existing]

\* Nothing has been typed in the action in progress
NoInput == [op |-> "none", text |-> <<>>, answer |-> "none", dirok |-> FALSE]

\* The process has not ended
NoExit == [status |-> "none", cause |-> "none", at |-> "none"]

NoPath == [dir |-> "", host |-> <<>>, ts |-> 0, fmt |-> ""]

IdleJob == [state |-> "idle", url |-> <<>>, path |-> NoPath, ret |-> FALSE]

Running == job.state \in {"primary", "fallback"}

Invocation(kind, cmd, spawn) ==
    [kind |-> kind, cmd |-> cmd,
     outcome |-> IF spawn = "ok" THEN "running" ELSE spawn,
     file |-> "unchecked"]

\* download_video returns r; log is the job's invocations
JobReturn(u, p, r, log) ==
    /\ job' = [state |-> "returned", url |-> u, path |-> p, ret |-> r]
    /\ inv' = log
    /\ started' = started

\* _try_fallback_download, up to the start of its subprocess
try_fallback_download(u, p, log) ==
    \E fsp \in SpawnOutcomes :
        LET e == Invocation("fallback", fallback_cmd(u, p, dl), fsp)
        IN  IF fsp = "ok"
            THEN /\ job' = [state |-> "fallback", url |-> u, path |-> p,
                            ret |-> FALSE]
                 /\ inv' = Append(log, e)
                 /\ started' = now
            ELSE JobReturn(u, p, FALSE, Append(log, e))

\* Variant: the fallback is tried whatever the quality
primary_failed_any_quality(u, p, log) == try_fallback_download(u, p, log)

\* download_video, the else branch of the primary execution: it failed
primary_failed(u, p, log) ==
    IF dl.video_quality # "best"
    THEN try_fallback_download(u, p, log)
    ELSE JobReturn(u, p, FALSE, log)

\* Variant: a failed verification is retried like a failed execution
primary_finished_retry(u, p, out, log) ==
    IF execute_ok(out.rc) /\ output_verified(out.file)
    THEN JobReturn(u, p, TRUE, log)
    ELSE primary_failed(u, p, log)

\* download_video, after the primary _execute_ffmpeg_command has returned
primary_finished(u, p, out, log) ==
    IF execute_ok(out.rc)
    THEN JobReturn(u, p, output_verified(out.file), log)
    ELSE primary_failed(u, p, log)

\* Variant: an error raised while the output of the fallback subprocess is
\* read leaves the call without a return value
fallback_finished_uncaught(u, p, out, log) ==
    IF out.rc = "readerr"
    THEN /\ job' = [state |-> "raised", url |-> u, path |-> p, ret |-> FALSE]
         /\ inv' = log
         /\ started' = started
    ELSE JobReturn(u, p, execute_ok(out.rc) /\ output_verified(out.file), log)

\* _try_fallback_download, after its _execute_ffmpeg_command has returned
fallback_finished(u, p, out, log) ==
    IF execute_ok(out.rc)
    THEN JobReturn(u, p, output_verified(out.file), log)
    ELSE JobReturn(u, p, FALSE, log)

\* download_video(url, output_dir), up to the start of a subprocess
download_video(url, output_dir) ==
    IF url_rejected(url)
    THEN JobReturn(url, NoPath, FALSE, <<>>) /\ paths' = paths
    ELSE LET p == generate_output_filename(url, output_dir, dl, now)
         IN  /\ paths' = Append(paths, p)
             /\ \E sp \in SpawnOutcomes :
                LET e == Invocation("primary", build_ffmpeg_command(url, p, dl), sp)
                IN  IF sp = "ok"
                    THEN /\ job' = [state |-> "primary", url |-> url,
                                    path |-> p, ret |-> FALSE]
                         /\ inv' = <<e>>
                         /\ started' = now
                    ELSE primary_failed(url, p, <<e>>)

\* The running subprocess ends; download_video goes on to its return or to
\* the start of the fallback subprocess.
ProcExit ==
    /\ Running
    /\ \E out \in ExitOutcomes :
          LET log == [inv EXCEPT ![Len(inv)].outcome = out.rc,
                                 ![Len(inv)].file = out.file]
          IN  IF job.state = "primary"
              THEN primary_finished(job.url, job.path, out, log)
              ELSE fallback_finished(job.url, job.path, out, log)
    /\ UNCHANGED <<typed, dirs, paths, edit, platform, exit_info, pc, settings_file, settings, reads, urls_file, urls, idx,
                   successful, failed, probes, processed, dl, now>>

\* Time passes while the subprocess runs: process.wait() has no timeout.
Tick ==
    /\ Running
    /\ now < MaxClock
    /\ now' = now + 1
    /\ UNCHANGED <<typed, dirs, paths, edit, platform, exit_info, pc, settings_file, settings, reads, urls_file, urls, idx,
                   successful, failed, probes, processed, dl, job, inv, started>>

----------------------------------------------------------------------------
(* Harness of download_video: any URL, any quality *)

DlConfigs ==
    [video_quality : Qualities, output_format : {"mp4", "mkv"},
     ffmpeg_path : {"ffmpeg", "/opt/ffmpeg"}, dir : {"./downloads"}]

InitJob ==
    /\ pc = "call"
    /\ settings_file = AbsentFile
    /\ settings = default_settings
    /\ reads = <<>>
    /\ urls_file = AbsentUrls
    /\ urls \in {<<u>> : u \in SampleUrls}
    /\ idx = 1
    /\ successful = 0
    /\ failed = 0
    /\ probes = <<>>
    /\ processed = <<>>
    /\ dl \in DlConfigs
    /\ job = IdleJob
    /\ inv = <<>>
    /\ now = 0
    /\ started = 0
    /\ paths = <<>>
    /\ edit = <<>>
    /\ platform = "Linux"
    /\ exit_info = NoExit
    /\ dirs = {}
    /\ typed = NoInput

CallDownloadVideo ==
    /\ pc = "call"
    /\ pc' = "called"
    /\ download_video(urls[1], dl.dir)
    /\ processed' = Append(processed, urls[1])
    /\ UNCHANGED <<typed, dirs, edit, platform, exit_info, settings_file, settings, reads, urls_file, urls, idx,
                   successful, failed, probes, dl, now>>

NextJob == CallDownloadVideo \/ ProcExit \/ Tick

SpecJob == InitJob /\ [][NextJob]_vars

----------------------------------------------------------------------------
(* Harness of read_settings: any settings file *)

InitSettings ==
    /\ pc = "settings"
    /\ settings_file \in SettingsFiles
    /\ settings = default_settings
    /\ reads = <<>>
    /\ urls_file = AbsentUrls
    /\ urls = <<>>
    /\ idx = 1
    /\ successful = 0
    /\ failed = 0
    /\ probes = <<>>
    /\ processed = <<>>
    /\ dl = [video_quality |-> "best", output_format |-> "mp4",
             ffmpeg_path |-> "ffmpeg", dir |-> "./downloads"]
    /\ job = IdleJob
    /\ inv = <<>>
    /\ now = 0
    /\ started = 0
    /\ paths = <<>>
    /\ edit = <<>>
    /\ platform = "Linux"
    /\ exit_info = NoExit
    /\ dirs = {}
    /\ typed = NoInput

CallReadSettings ==
    /\ pc = "settings"
    /\ Len(reads) < MaxReads
    /\ \E wok \in BOOLEAN :
          LET r == read_settings(settings_file, wok)
          IN  /\ settings' = r.ret
              /\ settings_file' = r.file
              /\ reads' = Append(reads, [before |-> settings_file,
                                         after |-> r.file, ret |-> r.ret,
                                         raised |-> r.raised, wok |-> wok])
    /\ UNCHANGED <<typed, dirs, paths, edit, platform, exit_info, pc, urls_file, urls, idx, successful, failed, probes,
                   processed, dl, job, inv, now, started>>

NextSettings == CallReadSettings

SpecSettings == InitSettings /\ [][NextSettings]_vars

----------------------------------------------------------------------------
(* Harness of read_urls: any URL list file, edited by the user between reads *)

\* Lines of a URL list file: URLs (bare, surrounded by blanks, with a scheme
\* that is not http), comments (bare, indented), an empty and a blank line.
UrlFileLines ==
    { <<"http://", "a.com", "/v.m3u8">>,
      <<Blank, "https://", "www.", "a.com", "/v.m3u8", Blank>>,
      <<"ftp://", "a.com", "/v.m3u8">>,
      <<"#", "note">>,
      <<Blank, "#", "note">>,
      <<>>,
      <<Blank>> }

\* What the user adds in the editor
AppendedLines ==
    { <<"http://", "a.com", "/v.m3u8">>,
      <<"ftp://", "a.com", "/v.m3u8">>,
      <<Blank>> }

HarnessUrlFiles ==
    {AbsentUrls, UnreadableUrls}
    \cup {UrlsText(l) : l \in UNION {[1..n -> UrlFileLines] : n \in 0..MaxLines}}

InitUrls ==
    /\ pc = "urls"
    /\ settings_file = AbsentFile
    /\ settings = default_settings
    /\ reads = <<>>
    /\ urls_file \in HarnessUrlFiles
    /\ urls = <<>>
    /\ idx = 1
    /\ successful = 0
    /\ failed = 0
    /\ probes = <<>>
    /\ processed = <<>>
    /\ dl = [video_quality |-> "best", output_format |-> "mp4",
             ffmpeg_path |-> "ffmpeg", dir |-> "./downloads"]
    /\ job = IdleJob
    /\ inv = <<>>
    /\ now = 0
    /\ started = 0
    /\ paths = <<>>
    /\ edit = <<>>
    /\ platform = "Linux"
    /\ exit_info = NoExit
    /\ dirs = {}
    /\ typed = NoInput

CallReadUrls ==
    /\ pc = "urls"
    /\ Len(reads) < MaxReads
    /\ \E wok \in BOOLEAN :
          LET r == read_urls(urls_file, wok)
          IN  /\ urls' = r.ret
              /\ urls_file' = r.file
              /\ reads' = Append(reads, [before |-> urls_file, after |-> r.file,
                                         ret |-> r.ret, wok |-> wok])
    /\ UNCHANGED <<typed, dirs, paths, edit, platform, exit_info, pc, settings_file, settings, idx, successful, failed,
                   probes, processed, dl, job, inv, now, started>>

\* The user appends one line to the file in an editor, outside the program
UserAppendsLine ==
    /\ pc = "urls"
    /\ urls_file.kind = "text"
    /\ Len(urls_file.lines) < Len(welcome_lines) + MaxLines - 1
    /\ \E l \in AppendedLines :
          urls_file' = UrlsText(Append(urls_file.lines, l))
    /\ UNCHANGED <<typed, dirs, paths, edit, platform, exit_info, pc, settings_file, settings, reads, urls, idx, successful,
                   failed, probes, processed, dl, job, inv, now, started>>

NextUrls == CallReadUrls \/ UserAppendsLine

SpecUrls == InitUrls /\ [][NextUrls]_vars

----------------------------------------------------------------------------
(* The application: main menu and download session, ui/menu.py *)

\* Outcomes of subprocess.run([ffmpeg_path, '-version'], timeout=10)
ProbeOutcomes == {"exit0", "exit1", "timeout", "notfound", "oserror"}

\* Variant: the return code of the version query is not looked at
check_dependencies_any_exit(outcome) == outcome \in {"exit0", "exit1"}

\* check_dependencies: True only when the return code is 0
check_dependencies(outcome) ==
    IF outcome \in {"exit0", "exit1"} THEN outcome = "exit0" ELSE FALSE

\* VideoDownloader.__init__: self.ffmpeg_path = ffmpeg_path or 'ffmpeg'
VideoDownloader(quality, format, path, dir) ==
    [video_quality |-> quality, output_format |-> format,
     ffmpeg_path |-> IF path = "" THEN "ffmpeg" ELSE path, dir |-> dir]

\* Answers typed at a prompt, and str.strip().lower() of them
Answers == {"y", "Y", "yes", "n", ""}
answer_lower(a) == IF a = "Y" THEN "y" ELSE a

AppLines ==
    { <<"http://", "a.com", "/v.m3u8">>,
      <<"https://", "www.", "a.com", "/v.m3u8">>,
      <<"ftp://", "a.com", "/v.m3u8">>,
      <<"#", "note">> }

AppUrlFiles ==
    {AbsentUrls}
    \cup {UrlsText(l) : l \in UNION {[1..n -> AppLines] : n \in 0..MaxLines}}

AppSettingsFiles ==
    { AbsentFile, CorruptFile,
      SectionFile([k \in {"video_quality"} |-> "high"]),
      SectionFile([k \in {"video_quality", "output_format"} |->
                      IF k = "video_quality" THEN "ultra" ELSE "mkv"]) }

Init ==
    /\ pc = "start"
    /\ settings_file \in AppSettingsFiles
    /\ settings = default_settings
    /\ reads = <<>>
    /\ urls_file \in AppUrlFiles
    /\ urls = <<>>
    /\ idx = 1
    /\ successful = 0
    /\ failed = 0
    /\ probes = <<>>
    /\ processed = <<>>
    /\ dl = VideoDownloader("best", "mp4", "", "")
    /\ job = IdleJob
    /\ inv = <<>>
    /\ now = 0
    /\ started = 0
    /\ paths = <<>>
    /\ edit = <<>>
    /\ platform = "Linux"
    /\ exit_info = NoExit
    /\ dirs = {}
    /\ typed = NoInput

\* MenuInterface.__init__ -> SettingsManager.__init__: the settings are read
Construct ==
    /\ pc = "start"
    /\ pc' = "menu"
    /\ \E wok \in BOOLEAN :
          LET r == read_settings(settings_file, wok)
          IN  settings' = r.ret /\ settings_file' = r.file
    /\ UNCHANGED <<typed, dirs, paths, edit, platform, exit_info, reads, urls_file, urls, idx, successful, failed, probes,
                   processed, dl, job, inv, now, started>>

\* Variant: the record in memory survives the start of a session
refreshed_settings_keep(current, loaded) == current

\* download_videos: self.settings_manager.settings = read_settings()
refreshed_settings(current, loaded) == loaded

\* Menu choice 1, download_videos up to its first prompt: the settings are
\* refreshed, the tool is probed, the URL list is read and the download
\* directory is prepared.
download_videos ==
    /\ pc = "menu"
    /\ \E wok \in BOOLEAN, probe \in ProbeOutcomes, uwok \in BOOLEAN,
          dirok \in BOOLEAN :
          LET r == read_settings(settings_file, wok)
              u == read_urls(urls_file, uwok)
          IN  /\ settings' = refreshed_settings(settings, r.ret)
              /\ settings_file' = r.file
              /\ dl' = VideoDownloader("best", "mp4", settings'["ffmpeg_path"], "")
              /\ probes' = <<[cmd |-> <<dl'.ffmpeg_path, "-version">>,
                              outcome |-> probe]>>
              /\ IF ~check_dependencies(probe)
                 THEN /\ pc' = "pause" /\ urls' = <<>> /\ urls_file' = urls_file
                      /\ dirs' = dirs
                 ELSE /\ urls' = u.ret
                      /\ urls_file' = u.file
                      /\ IF u.ret = <<>> THEN pc' = "pause" /\ dirs' = dirs
                         ELSE LET e == ensure_download_directory(
                                          dirs, settings'["download_directory"], dirok)
                              IN  /\ dirs' = e.dirs
                                  /\ pc' = IF e.ret THEN "confirm" ELSE "pause"
    /\ idx' = 1
    /\ successful' = 0
    /\ failed' = 0
    /\ processed' = <<>>
    /\ job' = IdleJob
    /\ inv' = <<>>
    /\ paths' = <<>>
    /\ UNCHANGED <<typed, edit, platform, exit_info, reads, now, started>>

\* download_videos, the prompt 'Start download? (y/N)': on y or yes the
\* downloader is created with the current settings and the loop begins.
confirm_download ==
    /\ pc = "confirm"
    /\ \E a \in Answers :
          /\ typed' = [op |-> "start", text |-> <<>>, answer |-> a,
                       dirok |-> FALSE]
          /\ IF answer_lower(a) \in {"y", "yes"}
             THEN /\ pc' = "loop"
                  /\ dl' = VideoDownloader(settings["video_quality"],
                                           settings["output_format"],
                                           dl.ffmpeg_path,
                                           settings["download_directory"])
             ELSE pc' = "pause" /\ dl' = dl
    /\ UNCHANGED <<dirs, paths, edit, platform, exit_info, settings_file,
                   settings, reads, urls_file, urls, idx, successful, failed,
                   probes, processed, job, inv, now, started>>

\* download_videos, the for loop: the next URL is handed to download_video
loop_next ==
    /\ pc = "loop"
    /\ idx <= Len(urls)
    /\ pc' = "downloading"
    /\ download_video(urls[idx], dl.dir)
    /\ processed' = Append(processed, urls[idx])
    /\ UNCHANGED <<typed, dirs, edit, platform, exit_info, settings_file, settings, reads, urls_file, urls, idx,
                   successful, failed, probes, dl, now>>

\* Variant: a failed job ends the loop
loop_account_abort ==
    /\ pc = "downloading"
    /\ job.state = "returned"
    /\ IF job.ret
       THEN successful' = successful + 1 /\ failed' = failed /\ idx' = idx + 1
       ELSE failed' = failed + 1 /\ successful' = successful
            /\ idx' = Len(urls) + 1
    /\ pc' = "loop"
    /\ job' = IdleJob
    /\ inv' = <<>>
    /\ UNCHANGED <<typed, dirs, paths, edit, platform, exit_info, settings_file, settings, reads, urls_file, urls, probes,
                   processed, dl, now, started>>

\* download_videos, the for loop: download_video has returned
\* (download_video catches every Exception itself, so the loop's own
\* `except Exception`, which also counts a failure, is never entered)
loop_account ==
    /\ pc = "downloading"
    /\ job.state = "returned"
    /\ IF job.ret
       THEN successful' = successful + 1 /\ failed' = failed
       ELSE failed' = failed + 1 /\ successful' = successful
    /\ idx' = idx + 1
    /\ pc' = "loop"
    /\ job' = IdleJob
    /\ inv' = <<>>
    /\ UNCHANGED <<typed, dirs, paths, edit, platform, exit_info, settings_file, settings, reads, urls_file, urls, probes,
                   processed, dl, now, started>>

\* download_videos, after the loop: the session summary
summary ==
    /\ pc = "loop"
    /\ idx > Len(urls)
    /\ pc' = "summary"
    /\ UNCHANGED <<typed, dirs, paths, edit, platform, exit_info, settings_file, settings, reads, urls_file, urls, idx,
                   successful, failed, probes, processed, dl, job, inv, now,
                   started>>

\* 'Press Enter to continue...': download_videos returns to the main loop
\* and its local objects (URL list, counters, downloader) are gone
press_enter ==
    /\ pc \in {"pause", "summary"}
    /\ pc' = "menu"
    /\ urls' = <<>>
    /\ idx' = 1
    /\ successful' = 0
    /\ failed' = 0
    /\ probes' = <<>>
    /\ processed' = <<>>
    /\ dl' = VideoDownloader("best", "mp4", "", "")
    /\ job' = IdleJob
    /\ inv' = <<>>
    /\ paths' = <<>>
    /\ typed' = NoInput
    /\ UNCHANGED <<dirs, edit, platform, exit_info, settings_file, settings, reads,
                   urls_file, now, started>>

\* Variant: an interrupt is reported as a failure
exit_status_interrupt_fails(cause) == IF cause = "exit" THEN "0" ELSE "1"

\* Exit status of the process, main.py: 0 when run() returns (Exit, or an
\* interrupt caught by run) and on sys.exit(0) (an interrupt caught by
\* main); 1 on sys.exit(1) (version check, `except Exception` of main)
exit_status(cause) == IF cause \in {"exit", "interrupt"} THEN "0" ELSE "1"

\* The process has ended; at: where it was when the cause arose
Exited(cause, at) == [status |-> exit_status(cause), cause |-> cause, at |-> at]

\* Menu choice 4
exit_application ==
    /\ pc = "menu"
    /\ pc' = "exited"
    /\ exit_info' = Exited("exit", pc)
    /\ UNCHANGED <<typed, dirs, paths, edit, platform, settings_file, settings, reads, urls_file, urls, idx,
                   successful, failed, probes, processed, dl, job, inv, now,
                   started>>

Next ==
    \/ Construct
    \/ download_videos
    \/ confirm_download
    \/ loop_next
    \/ ProcExit
    \/ Tick
    \/ loop_account
    \/ summary
    \/ press_enter
    \/ exit_application

Spec == Init /\ [][Next]_vars

----------------------------------------------------------------------------
(* The whole application: entry point (main.py), settings submenu          *)
(* (ui/settings_manager.py), editor launch (utils/file_editor.py) and      *)
(* keyboard interrupts                                                     *)

\* The text of a typed line of at most one word
Word(s) == IF s = <<>> THEN "" ELSE s[1]

\* What the user types at the prompts of the settings submenu
DirInputs == {<<>>, <<Blank, "/data", Blank>>}
QualityInputs == {<<>>, <<"INFO">>, <<"High", Blank>>, <<"best">>, <<"ultra">>}
FormatInputs == {<<>>, <<Blank, "MKV">>, <<"webm">>}
PathInputs == {<<>>, <<Blank>>, <<"/opt/ffmpeg", Blank>>}

\* _get_quality_options().keys()
quality_options == {"best", "high", "medium", "low"}

\* Variant: every non-empty input is accepted
validate_quality_input_any(quality) ==
    IF quality = <<>> THEN [valid |-> TRUE, result |-> "No change"]
    ELSE [valid |-> TRUE, result |-> Word(Strip(Lower(quality)))]

\* _validate_quality_input
validate_quality_input(quality) ==
    IF quality = <<>> THEN [valid |-> TRUE, result |-> "No change"]
    ELSE IF Word(Strip(Lower(quality))) \in quality_options
    THEN [valid |-> TRUE, result |-> Word(Strip(Lower(quality)))]
    ELSE [valid |-> FALSE, result |-> "Valid options"]

\* _show_quality_warning: the re-encoding qualities ask 'Continue? (y/N)'
show_quality_warning(quality, a) ==
    IF quality \in {"high", "medium", "low"}
    THEN answer_lower(a) \in {"y", "yes"}
    ELSE TRUE

\* Menu choice 3
open_settings ==
    /\ pc = "menu"
    /\ pc' = "settings"
    /\ UNCHANGED <<typed, dirs, settings_file, settings, reads, urls_file, urls, idx,
                   successful, failed, probes, processed, dl, job, inv, now,
                   started, paths, edit, platform, exit_info>>

\* _edit_download_directory: [settings, dirs] after the text was typed
directory_edit(rec, existing, text, dirok) ==
    LET new_dir == Strip(text)
        e == ensure_download_directory(existing, Word(new_dir), dirok)
    IN  IF new_dir # <<>>
        THEN [settings |-> IF e.ret
                           THEN [rec EXCEPT !["download_directory"] = Word(new_dir)]
                           ELSE rec,
              dirs |-> e.dirs]
        ELSE [settings |-> rec, dirs |-> existing]

\* Settings choice 1. dirok: ensure_download_directory(new_dir)
edit_download_directory ==
    /\ pc = "settings"
    /\ \E text \in DirInputs, dirok \in BOOLEAN :
          LET r == directory_edit(settings, dirs, text, dirok)
          IN  settings' = r.settings /\ dirs' = r.dirs
    /\ UNCHANGED <<pc, settings_file, reads, urls_file, urls, idx,
                   successful, failed, probes, processed, dl, job, inv, now,
                   started, paths, edit, platform, exit_info, typed>>

\* Variant: a re-encoding quality is stored without the confirmation
video_quality_edit_unconfirmed(rec, text, a) ==
    LET new_quality == Strip(text)
        v == validate_quality_input(new_quality)
    IN  IF Lower(new_quality) = <<"info">> THEN rec
        ELSE IF ~v.valid THEN rec
        ELSE IF v.result = "No change" THEN rec
        ELSE [rec EXCEPT !["video_quality"] = v.result]

\* _edit_video_quality: the record after the text, and the answer to
\* 'Continue? (y/N)' when it is asked, were typed
video_quality_edit(rec, text, a) ==
    LET new_quality == Strip(text)
        v == validate_quality_input(new_quality)
    IN  IF Lower(new_quality) = <<"info">> THEN rec
        ELSE IF ~v.valid THEN rec
        ELSE IF v.result = "No change" THEN rec
        ELSE IF ~show_quality_warning(v.result, a) THEN rec
        ELSE [rec EXCEPT !["video_quality"] = v.result]

\* Settings choice 2
edit_video_quality ==
    /\ pc = "settings"
    /\ \E text \in QualityInputs, a \in Answers :
          settings' = video_quality_edit(settings, text, a)
    /\ UNCHANGED <<pc, settings_file, reads, urls_file, urls, idx,
                   successful, failed, probes, processed, dl, job, inv, now,
                   started, paths, edit, platform, exit_info, typed, dirs>>

\* _edit_output_format: the record after the text was typed
output_format_edit(rec, text) ==
    LET new_format == Word(Lower(Strip(text)))
    IN  IF new_format # "" /\ new_format \in {"mp4", "mkv", "avi", "mov"}
        THEN [rec EXCEPT !["output_format"] = new_format]
        ELSE rec

\* Variant: an accepted format is written to the file at once
edit_output_format_autosave ==
    /\ pc = "settings"
    /\ \E text \in FormatInputs, wok \in BOOLEAN :
          LET new_format == Word(Lower(Strip(text)))
          IN  IF new_format \in {"mp4", "mkv", "avi", "mov"}
              THEN /\ settings' = [settings EXCEPT !["output_format"] = new_format]
                   /\ settings_file' = write_settings(settings_file, settings', wok).file
              ELSE settings' = settings /\ settings_file' = settings_file
    /\ UNCHANGED <<pc, reads, urls_file, urls, idx,
                   successful, failed, probes, processed, dl, job, inv, now,
                   started, paths, edit, platform, exit_info, dirs, typed>>

\* Settings choice 3
edit_output_format ==
    /\ pc = "settings"
    /\ \E text \in FormatInputs :
          settings' = output_format_edit(settings, text)
    /\ UNCHANGED <<pc, settings_file, reads, urls_file, urls, idx,
                   successful, failed, probes, processed, dl, job, inv, now,
                   started, paths, edit, platform, exit_info, typed, dirs>>

\* Variant: an empty input keeps the current path
ffmpeg_path_edit_keep(rec, text) ==
    IF Strip(text) = <<>> THEN rec
    ELSE [rec EXCEPT !["ffmpeg_path"] = Word(Strip(text))]

\* _edit_ffmpeg_path: the record after the text was typed
ffmpeg_path_edit(rec, text) ==
    LET new_path == Strip(text)
    IN  [rec EXCEPT !["ffmpeg_path"] =
            IF new_path = <<>> THEN "ffmpeg" ELSE Word(new_path)]

\* Settings choice 4: self.settings['ffmpeg_path'] = new_path or 'ffmpeg'
edit_ffmpeg_path ==
    /\ pc = "settings"
    /\ \E text \in PathInputs :
          settings' = ffmpeg_path_edit(settings, text)
    /\ UNCHANGED <<pc, settings_file, reads, urls_file, urls, idx,
                   successful, failed, probes, processed, dl, job, inv, now,
                   started, paths, edit, platform, exit_info, typed, dirs>>

\* Settings choice 5: write_settings(self.settings); a failure is reported
save_settings ==
    /\ pc = "settings"
    /\ \E wok \in BOOLEAN :
          settings_file' = write_settings(settings_file, settings, wok).file
    /\ UNCHANGED <<typed, dirs, pc, settings, reads, urls_file, urls, idx,
                   successful, failed, probes, processed, dl, job, inv, now,
                   started, paths, edit, platform, exit_info>>

\* Settings choice 6: back to the main menu
settings_back ==
    /\ pc = "settings"
    /\ pc' = "menu"
    /\ UNCHANGED <<typed, dirs, settings_file, settings, reads, urls_file, urls, idx,
                   successful, failed, probes, processed, dl, job, inv, now,
                   started, paths, edit, platform, exit_info>>

----------------------------------------------------------------------------
(* Harness of the four edits of the settings submenu: any record, any     *)
(* input; reads holds the last edit                                        *)

\* Records in memory when the submenu opens: read_settings takes the values
\* of the file as they are, an empty ffmpeg_path included
EditRecords ==
    [download_directory : {"./downloads"},
     video_quality : {"best", "low", "ultra"},
     output_format : {"mp4", "webm"},
     ffmpeg_path : {"ffmpeg", "/usr/bin/ffmpeg", ""}]

InitEdit ==
    /\ pc = "submenu"
    /\ settings_file = AbsentFile
    /\ settings \in EditRecords
    /\ reads = <<>>
    /\ urls_file = AbsentUrls
    /\ urls = <<>>
    /\ idx = 1
    /\ successful = 0
    /\ failed = 0
    /\ probes = <<>>
    /\ processed = <<>>
    /\ dl = VideoDownloader("best", "mp4", "", "")
    /\ job = IdleJob
    /\ inv = <<>>
    /\ now = 0
    /\ started = 0
    /\ paths = <<>>
    /\ edit = <<>>
    /\ platform = "Linux"
    /\ exit_info = NoExit
    /\ dirs = {}
    /\ typed = NoInput

\* The edit that led from the record before to the record after
EditCall(before, input, after) ==
    [before |-> before, input |-> input, after |-> after]

CallEditDirectory ==
    /\ pc = "submenu"
    /\ \E text \in DirInputs, dirok \in BOOLEAN :
          LET r == directory_edit(settings, dirs, text, dirok)
          IN  /\ typed' = [op |-> "directory", text |-> text,
                           answer |-> "none", dirok |-> dirok]
              /\ settings' = r.settings
              /\ dirs' = r.dirs
              /\ reads' = <<EditCall(settings, typed', settings')>>
    /\ UNCHANGED <<pc, settings_file, urls_file, urls, idx, successful, failed,
                   probes, processed, dl, job, inv, now, started, paths, edit,
                   platform, exit_info>>

CallEditQuality ==
    /\ pc = "submenu"
    /\ \E text \in QualityInputs, a \in Answers :
          /\ typed' = [op |-> "quality", text |-> text, answer |-> a,
                       dirok |-> FALSE]
          /\ settings' = video_quality_edit(settings, text, a)
          /\ reads' = <<EditCall(settings, typed', settings')>>
    /\ UNCHANGED <<pc, settings_file, urls_file, urls, idx, successful, failed,
                   probes, processed, dl, job, inv, now, started, paths, edit,
                   platform, exit_info, dirs>>

CallEditFormat ==
    /\ pc = "submenu"
    /\ \E text \in FormatInputs :
          /\ typed' = [op |-> "format", text |-> text, answer |-> "none",
                       dirok |-> FALSE]
          /\ settings' = output_format_edit(settings, text)
          /\ reads' = <<EditCall(settings, typed', settings')>>
    /\ UNCHANGED <<pc, settings_file, urls_file, urls, idx, successful, failed,
                   probes, processed, dl, job, inv, now, started, paths, edit,
                   platform, exit_info, dirs>>

CallEditPath ==
    /\ pc = "submenu"
    /\ \E text \in PathInputs :
          /\ typed' = [op |-> "path", text |-> text, answer |-> "none",
                       dirok |-> FALSE]
          /\ settings' = ffmpeg_path_edit(settings, text)
          /\ reads' = <<EditCall(settings, typed', settings')>>
    /\ UNCHANGED <<pc, settings_file, urls_file, urls, idx, successful, failed,
                   probes, processed, dl, job, inv, now, started, paths, edit,
                   platform, exit_info, dirs>>

NextEdit == CallEditDirectory \/ CallEditQuality \/ CallEditFormat \/ CallEditPath

SpecEdit == InitEdit /\ [][NextEdit]_vars

Platforms == {"Windows", "Darwin", "Linux"}

\* Variant: vim is tried before nano
editor_commands_vim_first(system, file_path) ==
    CASE system = "Windows" -> << <<"notepad", file_path>> >>
      [] system = "Darwin" -> << <<"open", "-e", file_path>> >>
      [] OTHER -> << <<"vim", file_path>>, <<"nano", file_path>>,
                     <<"gedit", file_path>>, <<"kate", file_path>>,
                     <<"xdg-open", file_path>> >>

\* file_editor: the commands it runs, in the order in which it tries them;
\* on Linux xdg-open is run when none of the four editors succeeded
editor_commands(system, file_path) ==
    CASE system = "Windows" -> << <<"notepad", file_path>> >>
      [] system = "Darwin" -> << <<"open", "-e", file_path>> >>
      [] OTHER -> << <<"nano", file_path>>, <<"vim", file_path>>,
                     <<"gedit", file_path>>, <<"kate", file_path>>,
                     <<"xdg-open", file_path>> >>

\* file_editor, the inner `except (CalledProcessError, FileNotFoundError):
\* continue` of the Linux loop: the k-th command failed with exc, and the
\* next one is tried. Any other failure leaves file_editor's try block.
tries_next(system, k, exc) ==
    /\ system \notin {"Windows", "Darwin"}
    /\ k < Len(editor_commands(system, "URLs.txt"))
    /\ exc \in {"exit1", "notfound"}

\* Menu choice 2, edit_urls_file -> file_editor up to its first subprocess:
\* an absent file is created empty; if that fails, file_editor returns.
edit_urls_file ==
    /\ pc = "menu"
    /\ edit' = <<>>
    /\ \E wok \in BOOLEAN :
          IF urls_file.kind = "absent"
          THEN IF wok THEN urls_file' = UrlsText(<<>>) /\ pc' = "launch"
               ELSE urls_file' = urls_file /\ pc' = "edit_done"
          ELSE urls_file' = urls_file /\ pc' = "launch"
    /\ UNCHANGED <<typed, dirs, settings_file, settings, reads, urls, idx, successful,
                   failed, probes, processed, dl, job, inv, now, started,
                   paths, platform, exit_info>>

\* file_editor: subprocess.run starts the next command, or fails to
launch_editor ==
    /\ pc = "launch"
    /\ \E sp \in SpawnOutcomes :
          LET k == Len(edit) + 1
              cmd == editor_commands(platform, "URLs.txt")[k]
          IN  /\ edit' = Append(edit, [cmd |-> cmd,
                                       outcome |-> IF sp = "ok" THEN "running" ELSE sp])
              /\ pc' = IF sp = "ok" THEN "editing"
                       ELSE IF tries_next(platform, k, sp) THEN "launch"
                       ELSE "edit_done"
    /\ UNCHANGED <<typed, dirs, settings_file, settings, reads, urls_file, urls, idx,
                   successful, failed, probes, processed, dl, job, inv, now,
                   started, paths, platform, exit_info>>

\* What the file holds when the editor is closed
EditedUrlFiles ==
    { UrlsText(<<>>), UrlsText(<< <<"http://", "a.com", "/v.m3u8">> >>) }

\* file_editor: the editor process ends; check=True raises on a non-zero
\* exit code. The user may have changed the file.
editor_exit ==
    /\ pc = "editing"
    /\ \E rc \in {"exit0", "exit1"}, f \in {urls_file} \cup EditedUrlFiles :
          /\ edit' = [edit EXCEPT ![Len(edit)].outcome = rc]
          /\ urls_file' = f
          /\ pc' = IF rc = "exit0" THEN "edit_done"
                   ELSE IF tries_next(platform, Len(edit), rc) THEN "launch"
                   ELSE "edit_done"
    /\ UNCHANGED <<typed, dirs, settings_file, settings, reads, urls, idx, successful,
                   failed, probes, processed, dl, job, inv, now, started,
                   paths, platform, exit_info>>

\* edit_urls_file, 'Press Enter to continue...' after file_editor returned
edit_urls_file_return ==
    /\ pc = "edit_done"
    /\ pc' = "menu"
    /\ edit' = <<>>
    /\ UNCHANGED <<typed, dirs, settings_file, settings, reads, urls_file, urls, idx,
                   successful, failed, probes, processed, dl, job, inv, now,
                   started, paths, platform, exit_info>>

\* main: check_python_version, setup_logging; then MenuInterface()
\* Menu choice other than 1-4: 'Invalid choice! Select 1-4', then the prompt
\* 'Press Enter to continue...'
invalid_choice ==
    /\ pc = "menu"
    /\ pc' = "invalid"
    /\ UNCHANGED <<typed, dirs, settings_file, settings, reads, urls_file, urls, idx,
                   successful, failed, probes, processed, dl, job, inv, now,
                   started, paths, edit, platform, exit_info>>

\* Enter at the prompt after an invalid choice: the menu is shown again
invalid_choice_return ==
    /\ pc = "invalid"
    /\ pc' = "menu"
    /\ UNCHANGED <<typed, dirs, settings_file, settings, reads, urls_file, urls, idx,
                   successful, failed, probes, processed, dl, job, inv, now,
                   started, paths, edit, platform, exit_info>>

\* The control states of run() that wait at a prompt, in the menu itself or
\* inside a dispatched action
Prompts ==
    {"menu", "invalid", "pause", "confirm", "summary", "settings", "edit_done"}

\* Variant: an error raised at a prompt is caught by nothing below main
input_error_uncaught ==
    /\ pc \in Prompts
    /\ pc' = "exited"
    /\ exit_info' = Exited("error", pc)
    /\ UNCHANGED <<typed, dirs, settings_file, settings, reads, urls_file, urls, idx,
                   successful, failed, probes, processed, dl, job, inv, now,
                   started, paths, edit, platform>>

\* input() raises an error other than KeyboardInterrupt (EOFError when the
\* standard input is at its end) at a prompt: no action catches it, the
\* action's locals are gone, and `except Exception` of run() reports it and
\* waits at its own prompt 'Press Enter to continue...'
input_error ==
    /\ pc \in Prompts
    /\ pc' = "error"
    /\ urls' = <<>>
    /\ idx' = 1
    /\ successful' = 0
    /\ failed' = 0
    /\ probes' = <<>>
    /\ processed' = <<>>
    /\ dl' = VideoDownloader("best", "mp4", "", "")
    /\ job' = IdleJob
    /\ inv' = <<>>
    /\ paths' = <<>>
    /\ edit' = <<>>
    /\ typed' = NoInput
    /\ UNCHANGED <<dirs, settings_file, settings, reads, urls_file, now,
                   started, platform, exit_info>>

\* The prompt of the handler of run(): Enter shows the menu again; when this
\* input() raises too, the error is raised inside the handler, leaves run()
\* and reaches `except Exception` of main, sys.exit(1)
error_continue ==
    /\ pc = "error"
    /\ \E raised \in BOOLEAN :
          IF raised
          THEN pc' = "exited" /\ exit_info' = Exited("error", pc)
          ELSE pc' = "menu" /\ exit_info' = exit_info
    /\ UNCHANGED <<typed, dirs, settings_file, settings, reads, urls_file, urls, idx,
                   successful, failed, probes, processed, dl, job, inv, now,
                   started, paths, edit, platform>>

StartOutcomes == {"ok", "version", "error"}

main ==
    /\ pc = "boot"
    /\ \E o \in StartOutcomes :
          IF o = "ok" THEN pc' = "start" /\ exit_info' = exit_info
          ELSE pc' = "exited" /\ exit_info' = Exited(o, pc)
    /\ UNCHANGED <<typed, dirs, settings_file, settings, reads, urls_file, urls, idx,
                   successful, failed, probes, processed, dl, job, inv, now,
                   started, paths, edit, platform>>

\* KeyboardInterrupt: no handler below run() catches it (they catch
\* Exception); run() breaks its loop and main returns, or main catches it
\* and calls sys.exit(0)
keyboard_interrupt ==
    /\ pc # "exited"
    /\ pc' = "exited"
    /\ exit_info' = Exited("interrupt", pc)
    /\ UNCHANGED <<typed, dirs, settings_file, settings, reads, urls_file, urls, idx,
                   successful, failed, probes, processed, dl, job, inv, now,
                   started, paths, edit, platform>>

MenuUrlFiles == {AbsentUrls} \cup EditedUrlFiles

\* settings.ini at the start: absent, corrupt, a partial section, and a
\* section with a quality and a format outside the enumerations
MenuSettingsFiles ==
    { AbsentFile, CorruptFile,
      SectionFile([k \in {"video_quality"} |-> "high"]),
      SectionFile([k \in {"video_quality", "output_format"} |->
                      IF k = "video_quality" THEN "ultra" ELSE "webm"]) }

InitMenu ==
    /\ pc = "boot"
    /\ settings_file \in MenuSettingsFiles
    /\ settings = default_settings
    /\ reads = <<>>
    /\ urls_file \in MenuUrlFiles
    /\ urls = <<>>
    /\ idx = 1
    /\ successful = 0
    /\ failed = 0
    /\ probes = <<>>
    /\ processed = <<>>
    /\ dl = VideoDownloader("best", "mp4", "", "")
    /\ job = IdleJob
    /\ inv = <<>>
    /\ now = 0
    /\ started = 0
    /\ paths = <<>>
    /\ edit = <<>>
    /\ platform \in Platforms
    /\ exit_info = NoExit
    /\ dirs = {}
    /\ typed = NoInput

NextMenu ==
    \/ main
    \/ Construct
    \/ download_videos
    \/ confirm_download
    \/ loop_next
    \/ ProcExit
    \/ Tick
    \/ loop_account
    \/ summary
    \/ press_enter
    \/ open_settings
    \/ edit_download_directory
    \/ edit_video_quality
    \/ edit_output_format
    \/ edit_ffmpeg_path
    \/ save_settings
    \/ settings_back
    \/ edit_urls_file
    \/ launch_editor
    \/ editor_exit
    \/ edit_urls_file_return
    \/ invalid_choice
    \/ invalid_choice_return
    \/ input_error
    \/ error_continue
    \/ keyboard_interrupt
    \/ exit_application

SpecMenu == InitMenu /\ [][NextMenu]_vars

----------------------------------------------------------------------------
(* Properties *)

Returned == job.state = "returned"
LastInv == inv[Len(inv)]
OutputOf(e) == e.cmd[Len(e.cmd)]
ExecFailed(e) == e.outcome \in {"exit1", "notfound", "oserror", "readerr"}
ReEncode == {"high", "medium", "low"}

\* C1: download_video returns success only if the last subprocess exited
\* with code 0 and the output file, when checked, existed with a size
\* greater than zero, for the primary and for the fallback attempt; a
\* subprocess that exits 0 and leaves a missing or empty file never
\* belongs to a successful job.
C1_SuccessImpliesVerifiedOutput ==
    /\ (Returned /\ job.ret) =>
          /\ inv # <<>>
          /\ LastInv.outcome = "exit0"
          /\ LastInv.file = "nonempty"
          /\ OutputOf(LastInv) = job.path
    /\ \A i \in DOMAIN inv :
          (inv[i].outcome = "exit0" /\ inv[i].file # "nonempty") =>
             (Returned /\ ~job.ret)

\* C1: a job that succeeded through the fallback attempt
C1_Witness ==
    /\ Returned /\ job.ret
    /\ Len(inv) = 2
    /\ inv[1].outcome = "exit1"
    /\ inv[2].kind = "fallback"

\* C2: a job makes at most two invocations, the primary first and then at
\* most one fallback against the same output path; for quality high, medium
\* or low a failed primary execution is always followed by the fallback,
\* whose failure ends the job as failed; for quality best a failed primary
\* execution ends the job as failed with no second invocation.
C2_FallbackExactlyOnce ==
    /\ Len(inv) <= 2
    /\ (dl.video_quality = "best") => Len(inv) <= 1
    /\ inv # <<>> => inv[1].kind = "primary"
    /\ Len(inv) = 2 =>
          /\ inv[2].kind = "fallback"
          /\ OutputOf(inv[2]) = OutputOf(inv[1])
          /\ ExecFailed(inv[2]) => (Returned /\ ~job.ret)
    /\ (inv # <<>> /\ ExecFailed(inv[1])) =>
          /\ dl.video_quality \in ReEncode => Len(inv) = 2
          /\ dl.video_quality = "best" =>
                (Len(inv) = 1 /\ Returned /\ ~job.ret)

\* C2: a re-encode job whose primary and fallback both failed
C2_Witness ==
    /\ dl.video_quality \in ReEncode
    /\ Returned /\ ~job.ret
    /\ Len(inv) = 2
    /\ inv[1].outcome = "exit1"
    /\ inv[2].outcome = "exit1"

PrimaryUnverified ==
    /\ inv # <<>>
    /\ inv[1].outcome = "exit0"
    /\ inv[1].file # "nonempty"

\* C3 as stated: with a quality other than best, a primary invocation that
\* exits 0 and fails verification is followed by the fallback invocation.
C3_Original ==
    (dl.video_quality # "best" /\ PrimaryUnverified) =>
        (Len(inv) = 2 /\ inv[2].kind = "fallback")

\* C3 amended: whatever the quality, a primary invocation that exits 0 and
\* fails verification ends the job as failed with no fallback invocation.
C3_UnverifiedIsTerminal ==
    PrimaryUnverified => (Len(inv) = 1 /\ Returned /\ ~job.ret)

\* C3: a high-quality job whose primary run exited 0 and left an empty file
C3_Witness ==
    /\ dl.video_quality = "high"
    /\ PrimaryUnverified
    /\ inv[1].file = "empty"
    /\ Returned

AllBlank(u) == \A i \in DOMAIN u : u[i] = Blank
BeginsWithHttp(u) == u # <<>> /\ u[1] \in {"http://", "https://", "HTTP://"}

\* C4: for a URL that is empty or blank, or that does not begin with the
\* http or https scheme, download_video returns false and no invocation of
\* the external tool is made, whatever the quality.
C4_InvalidUrlNeverInvokes ==
    (job.state # "idle" /\ (AllBlank(job.url) \/ ~BeginsWithHttp(job.url))) =>
        (Returned /\ ~job.ret /\ inv = <<>>)

\* C4: the empty URL handled under a re-encode quality
C4_Witness ==
    /\ Returned
    /\ job.url = <<>>
    /\ dl.video_quality = "high"
    /\ processed = <<job.url>>

SchemeOnly(u) == u \in {<<"http://">>, <<"https://">>}

\* C5 as stated: a URL that is only a scheme prefix is failed at once and
\* the external tool is not invoked.
C5_Original ==
    (job.state # "idle" /\ SchemeOnly(job.url)) =>
        (Returned /\ ~job.ret /\ inv = <<>>)

\* C5 amended: a URL that is only a scheme prefix passes the validation of
\* download_video: the primary command is attempted with that URL.
C5_SchemeOnlyIsInvoked ==
    (job.state # "idle" /\ SchemeOnly(job.url)) =>
        (inv # <<>> /\ inv[1].kind = "primary" /\ inv[1].cmd[3] = job.url)

\* C5: the subprocess of the job for http:// is running
C5_Witness == job.url = <<"http://">> /\ job.state = "primary"

InSession == pc \in {"loop", "downloading", "summary"}

\* C6: in a confirmed session the URLs handed to download_video are the
\* list's entries in file order, each once; after k finished jobs
\* successful + failed = k, and at the summary every URL has been processed
\* and successful + failed = n; a job that has returned, with success or
\* failure, is counted and the loop goes on to the next URL.
C6_EveryUrlOnceInOrder ==
    InSession =>
        /\ idx \in 1..(Len(urls) + 1)
        /\ processed = SubSeq(urls, 1, Len(processed))
        /\ Len(processed) = IF pc = "downloading" THEN idx ELSE idx - 1
        /\ successful + failed = idx - 1
        /\ pc = "summary" =>
              (processed = urls /\ successful + failed = Len(urls))
        /\ (pc = "downloading" /\ Returned) => ENABLED loop_account
        /\ (pc = "loop" /\ idx <= Len(urls)) => ENABLED loop_next

\* C6: the second job is in progress after the first one failed
C6_Witness ==
    /\ pc = "downloading"
    /\ idx = 2
    /\ failed = 1
    /\ Running

\* C7: a session probes the tool exactly once, before any job; the tool
\* counts as available only on exit code 0, and otherwise the session hands
\* no URL to download_video, makes no download invocation and goes back to
\* the main menu.
C7_ProbeGatesSession ==
    /\ pc \in {"pause", "confirm", "loop", "downloading", "summary"} =>
          Len(probes) = 1
    /\ probes # <<>> => probes[1].cmd = <<dl.ffmpeg_path, "-version">>
    /\ (processed # <<>> \/ inv # <<>> \/ pc \in {"confirm", "loop"}) =>
          (probes # <<>> /\ probes[1].outcome = "exit0")
    /\ (probes # <<>> /\ probes[1].outcome # "exit0") =>
          /\ pc \in {"pause", "menu", "exited"}
          /\ processed = <<>>
          /\ inv = <<>>
          /\ job = IdleJob

\* C7: a session ended by a probe that exited non-zero, with URLs waiting
C7_Witness ==
    /\ pc = "pause"
    /\ Len(probes) = 1
    /\ probes[1].outcome = "exit1"
    /\ urls_file.kind = "text"
    /\ kept_lines(urls_file.lines) # <<>>

\* C8 as stated: no download subprocess is still running after the time
\* limit; it is aborted and the job fails.
C8_Original == Running => now <= started + TimeLimit

DocumentedDefaults ==
    [k \in Keys |->
        CASE k = "download_directory" -> "./downloads"
          [] k = "video_quality" -> "best"
          [] k = "output_format" -> "mp4"
          [] k = "ffmpeg_path" -> "ffmpeg"]

HasSection(f) == f.kind = "parsed" /\ f.section
AbsentOrNoSection(f) == f.kind = "absent" \/ (f.kind = "parsed" /\ ~f.section)

\* C9: whatever the settings file, read_settings does not raise and returns
\* a record with exactly the four keys; a key the file holds has the file's
\* value, a key it lacks the documented default; a file that is absent,
\* without section, unreadable or corrupt gives the whole default record.
C9_ReadSettingsTotal ==
    \A i \in DOMAIN reads :
        LET r == reads[i]
        IN  /\ ~r.raised
            /\ DOMAIN r.ret = Keys
            /\ HasSection(r.before) =>
                  \A k \in Keys :
                      r.ret[k] = IF k \in DOMAIN r.before.kv
                                 THEN r.before.kv[k]
                                 ELSE DocumentedDefaults[k]
            /\ ~HasSection(r.before) => r.ret = DocumentedDefaults

\* C9: a read of a file whose section holds some keys and lacks others
C9_Witness ==
    \E i \in DOMAIN reads :
        /\ HasSection(reads[i].before)
        /\ DOMAIN reads[i].before.kv = {"video_quality", "ffmpeg_path"}
        /\ reads[i].ret["video_quality"] = "low"

----------------------------------------------------------------------------
(* Properties of the URL list store *)

NonBlankAt(l) == {i \in DOMAIN l : l[i] # Blank}
FirstOf(S) == CHOOSE i \in S : \A k \in S : i <= k
LastOf(S) == CHOOSE i \in S : \A k \in S : k <= i

\* A line that is an entry: not blank, first non-blank character not '#'
IsEntry(l) == NonBlankAt(l) # {} /\ l[FirstOf(NonBlankAt(l))] # "#"

\* The line without its leading and trailing blanks
Trimmed(l) == SubSeq(l, FirstOf(NonBlankAt(l)), LastOf(NonBlankAt(l)))

EntryLines(lines) == {i \in DOMAIN lines : IsEntry(lines[i])}

\* Position in the file of the j-th entry
NthEntry(lines, j) ==
    CHOOSE i \in EntryLines(lines) :
        Cardinality({k \in EntryLines(lines) : k <= i}) = j

\* C11: for every URL list file, read_urls returns exactly its entry lines
\* (non-blank, first non-blank character not '#'), trimmed, in file order,
\* duplicates and malformed URLs included: N entry lines among M comment or
\* blank lines give exactly N entries.
C11_ReadUrlsKeepsEntries ==
    \A i \in DOMAIN reads :
        reads[i].before.kind = "text" =>
            LET lines == reads[i].before.lines
                ret == reads[i].ret
            IN  /\ Len(ret) = Cardinality(EntryLines(lines))
                /\ \A j \in DOMAIN ret : ret[j] = Trimmed(lines[NthEntry(lines, j)])

\* C11: a file with a comment, a URL between blanks, a blank line and the
\* same URL again was read
C11_Witness ==
    \E i \in DOMAIN reads :
        /\ reads[i].before.kind = "text"
        /\ Len(reads[i].before.lines) = 4
        /\ reads[i].before.lines[1] = <<Blank, "#", "note">>
        /\ reads[i].before.lines[3] = <<Blank>>
        /\ reads[i].ret = << <<"https://", "www.", "a.com", "/v.m3u8">>,
                             <<"ftp://", "a.com", "/v.m3u8">> >>
        /\ reads[i].after = reads[i].before

ThreeComments(f) ==
    /\ f.kind = "text"
    /\ Len(f.lines) = 3
    /\ \A k \in 1..3 : f.lines[k] # <<>> /\ f.lines[k][1] = "#"

----------------------------------------------------------------------------
(* Properties of the command lines *)

ScaleArgs(h) == <<"-vf", h, "-c:v", "libx264", "-c:a", "aac">>

\* The quality arguments as documented
QualityArgs(q) ==
    IF q = "high" THEN ScaleArgs("scale=-2:720")
    ELSE IF q = "medium" THEN ScaleArgs("scale=-2:480")
    ELSE IF q = "low" THEN ScaleArgs("scale=-2:360")
    ELSE <<"-c", "copy">>

\* C13: for every URL, output path, tool path and quality the primary
\* command is tool -i url -bsf:a aac_adtstoasc -y -loglevel error -stats,
\* then the quality arguments (-c copy for best and for every unknown
\* quality, the 720/480/360 re-encode for high/medium/low), then the output
\* path; the fallback command is tool -i url -c copy -bsf:a aac_adtstoasc -y
\* and the output path.
C13_CommandLines ==
    \A i \in DOMAIN inv :
        /\ inv[i].kind = "primary" =>
              inv[i].cmd = <<dl.ffmpeg_path, "-i", job.url, "-bsf:a",
                             "aac_adtstoasc", "-y", "-loglevel", "error",
                             "-stats">>
                           \o QualityArgs(dl.video_quality) \o <<job.path>>
        /\ inv[i].kind = "fallback" =>
              inv[i].cmd = <<dl.ffmpeg_path, "-i", job.url, "-c", "copy",
                             "-bsf:a", "aac_adtstoasc", "-y", job.path>>
        /\ inv[i].kind \in {"primary", "fallback"}

\* C13: a job with an unknown quality and the other tool path made both
\* invocations
C13_Witness ==
    /\ dl.video_quality = "ultra"
    /\ dl.ffmpeg_path = "/opt/ffmpeg"
    /\ Len(inv) = 2
    /\ inv[1].kind = "primary"
    /\ inv[1].cmd[10] = "-c"
    /\ inv[2].kind = "fallback"

----------------------------------------------------------------------------
(* Properties of the fallback decision *)

\* The invocation's arguments select the stream copy
UsesStreamCopy(e) ==
    \E k \in 1..(Len(e.cmd) - 1) : e.cmd[k] = "-c" /\ e.cmd[k + 1] = "copy"

\* C19 as stated: a fallback invocation is made only after a failed
\* re-encode attempt; when the primary invocation used the stream-copy
\* arguments (quality best, or an unknown quality), no fallback invocation
\* follows its failure.
C19_Original ==
    (inv # <<>> /\ UsesStreamCopy(inv[1])) => Len(inv) = 1

----------------------------------------------------------------------------
(* Properties of the output paths of a session *)

\* The URLs of this session that passed the scheme test, in order
Accepted == SelectSeq(processed, LAMBDA u : ~url_rejected(u))

\* Host of an accepted URL, without www.
HostOf(u) ==
    SelectSeq(SubSeq(u, 2, Len(u)), LAMBDA c : c # "www." /\ ~IsPathChunk(c))

----------------------------------------------------------------------------
(* Properties of the settings submenu *)

OtherThanSettings ==
    <<pc, settings_file, reads, urls_file, urls, idx, successful, failed,
      probes, processed, dl, job, inv, now, started, paths, edit, platform,
      exit_info>>

\* C14 as stated: in the settings submenu every edit changes only the
\* in-memory record; the settings file changes only by the save option,
\* which writes the in-memory record.
C14_Original ==
    [][pc = "settings" =>
          /\ (settings' # settings \/ dirs' # dirs) =>
                UNCHANGED <<typed, OtherThanSettings, dirs>>
          /\ settings_file' # settings_file =>
                /\ settings_file' = SectionFile(settings)
                /\ settings' = settings
                /\ pc' = "settings"]_vars

\* C14 amended: in the settings submenu an edit of the quality, format or
\* tool path changes only the in-memory record; an edit of the download
\* directory changes the in-memory record and, before that, creates the
\* typed directory on disk if it can; no edit changes the settings file,
\* which changes only by the save option, which writes the in-memory
\* record; so an edit that was never saved is not in the file when the
\* application exits.
C14_EditsStayInMemory ==
    [][pc = "settings" =>
          /\ (settings' # settings \/ dirs' # dirs) =>
                /\ UNCHANGED OtherThanSettings
                /\ dirs' # dirs =>
                      /\ dirs' = dirs \cup {settings'["download_directory"]}
                      /\ \A k \in Keys \ {"download_directory"} :
                            settings'[k] = settings[k]
                /\ settings'["download_directory"] # settings["download_directory"] =>
                      settings'["download_directory"] \in dirs'
          /\ settings_file' # settings_file =>
                /\ settings_file' = SectionFile(settings)
                /\ settings' = settings
                /\ dirs' = dirs
                /\ pc' = "settings"]_vars

\* C14: the application has exited after the format was edited to mkv and
\* never saved: the file still holds only the quality it started with
C14_Witness ==
    /\ pc = "exited"
    /\ exit_info.cause = "exit"
    /\ settings["output_format"] = "mkv"
    /\ settings["download_directory"] = "/data"
    /\ dirs = {"/data"}
    /\ settings_file = SectionFile([k \in {"video_quality"} |-> "high"])

\* C15 as stated: the session started from the main menu uses the values
\* the user last set: its in-memory record is the record as it was when
\* Download was chosen, and the dependency check runs that tool path.
C15_Original ==
    [][(pc = "menu" /\ pc' \in {"pause", "confirm"}) =>
          /\ settings' = settings
          /\ probes'[1].cmd[1] = settings["ffmpeg_path"]]_vars

QualityEnum == {"best", "high", "medium", "low"}
FormatEnum == {"mp4", "mkv", "avi", "mov"}

\* C20 as stated: the in-memory record always has a quality and a format of
\* the enumerations, and so has the downloader.
C20_Original ==
    /\ settings["video_quality"] \in QualityEnum
    /\ settings["output_format"] \in FormatEnum
    /\ dl.video_quality \in QualityEnum
    /\ dl.output_format \in FormatEnum

FileHolds(k, v) ==
    HasSection(settings_file) /\ k \in DOMAIN settings_file.kv
       /\ settings_file.kv[k] = v

\* C20 amended: the settings submenu stores only qualities and formats of
\* the enumerations, but values loaded from the settings file are taken as
\* they are: the in-memory record has a quality or a format outside its
\* enumeration only if the settings file holds that very value, and the
\* downloader of a session gets the quality and format of the record.
C20_OnlyFileValuesEscapeEnum ==
    /\ settings["video_quality"] \notin QualityEnum =>
          FileHolds("video_quality", settings["video_quality"])
    /\ settings["output_format"] \notin FormatEnum =>
          FileHolds("output_format", settings["output_format"])
    /\ InSession =>
          /\ dl.video_quality = settings["video_quality"]
          /\ dl.output_format = settings["output_format"]

\* C20: a job runs with the quality ultra and the format webm of the file
C20_Witness ==
    /\ pc = "downloading"
    /\ Running
    /\ dl.video_quality = "ultra"
    /\ dl.output_format = "webm"
    /\ job.path.fmt = "webm"

----------------------------------------------------------------------------
(* Properties of the process exit and of the editor launch *)

\* C16: the exit status is 0 when Exit was chosen and when a keyboard
\* interrupt arrived, whatever the application was doing (an interrupt can
\* arrive in every state and ends the process); it is 1 when the runtime
\* version is incompatible or an error reached main.
C16_ExitStatus ==
    /\ pc = "exited" <=> exit_info # NoExit
    /\ pc # "exited" => ENABLED keyboard_interrupt
    /\ pc = "exited" =>
          /\ exit_info.cause \in {"exit", "interrupt", "version", "error"}
          /\ exit_info.cause \in {"exit", "interrupt"} => exit_info.status = "0"
          /\ exit_info.cause \in {"version", "error"} => exit_info.status = "1"
          /\ exit_info.cause = "exit" => exit_info.at = "menu"
          /\ exit_info.cause = "version" => exit_info.at = "boot"
          /\ exit_info.cause = "error" => exit_info.at \in {"boot", "error"}

\* C16: an interrupt arrived while the fallback subprocess of a job ran
C16_Witness ==
    /\ pc = "exited"
    /\ exit_info = [status |-> "0", cause |-> "interrupt", at |-> "downloading"]
    /\ job.state = "fallback"

\* The editor commands as documented
EditorsInOrder ==
    CASE platform = "Windows" -> <<"notepad">>
      [] platform = "Darwin" -> <<"open">>
      [] OTHER -> <<"nano", "vim", "gedit", "kate", "xdg-open">>

EditorFailed(e) == e.outcome \in {"exit1", "notfound", "oserror"}

\* C17: file_editor tries editors only on an existing file, the platform's
\* commands in their order, and none after one has succeeded; whatever
\* fails, the application does not end: file_editor returns, and Enter
\* leads back to the main menu.
C17_EditorNeverFatal ==
    /\ pc \in {"launch", "editing"} => urls_file.kind = "text"
    /\ edit # <<>> =>
          /\ pc \in {"launch", "editing", "edit_done", "exited"}
          /\ urls_file.kind = "text"
          /\ Len(edit) <= Len(EditorsInOrder)
          /\ \A i \in DOMAIN edit :
                /\ edit[i].cmd[1] = EditorsInOrder[i]
                /\ edit[i].cmd[Len(edit[i].cmd)] = "URLs.txt"
                /\ i < Len(edit) => EditorFailed(edit[i])
    /\ pc = "launch" => Len(edit) < Len(EditorsInOrder)
    /\ pc = "editing" => edit # <<>> /\ edit[Len(edit)].outcome = "running"
    /\ pc = "edit_done" => ENABLED edit_urls_file_return
    /\ (pc = "exited" /\ exit_info.at \in {"launch", "editing", "edit_done"}) =>
          exit_info.cause = "interrupt"

\* C17: on Linux none of the five commands could be run, and file_editor
\* has returned
C17_Witness ==
    /\ pc = "edit_done"
    /\ platform = "Linux"
    /\ Len(edit) = 5
    /\ \A i \in DOMAIN edit : EditorFailed(edit[i])

-----------------------------------------------------------------------------
(* Settings refresh at the start of a session *)

\* The states of a download session, from the refresh to the summary
SessionStates == {"pause", "confirm", "loop", "downloading", "summary"}

\* The record a settings file stands for: its values, the documented default
\* for a key it lacks, all defaults when it is absent, corrupt or without
\* section
FileRecord(f) ==
    IF HasSection(f)
    THEN [k \in Keys |-> IF k \in DOMAIN f.kv THEN f.kv[k]
                         ELSE DocumentedDefaults[k]]
    ELSE DocumentedDefaults

\* C21: a step that starts a download session leaves in memory the record
\* of the settings file, with defaults for the keys it lacks, whatever was
\* edited before; during the session neither the record nor the file
\* changes, and a save from the settings menu writes the record in memory,
\* so a save that directly follows the session writes the file's values.
C21_SessionStartsFromFile ==
    [][/\ (pc = "menu" /\ pc' \in SessionStates) =>
              settings' = FileRecord(settings_file')
       /\ pc \in SessionStates =>
              (settings' = settings /\ settings_file' = settings_file)
       /\ (pc = "settings" /\ settings_file' # settings_file) =>
              FileRecord(settings_file') = settings]_vars

\* C21: a session at its prompt whose record holds the default directory
\* although the directory /data was entered, and created, in the settings
\* menu before
C21_Witness ==
    /\ pc = "confirm"
    /\ "/data" \in dirs
    /\ settings["download_directory"] = "./downloads"
    /\ FileRecord(settings_file)["download_directory"] = "./downloads"

-----------------------------------------------------------------------------
(* download_video is total *)

\* The last subprocess of the call
LastInvocation == inv[Len(inv)]

\* The ways a subprocess of the call can have behaved
InvocationOutcomes ==
    {"running", "notfound", "oserror", "exit0", "exit1", "readerr"}

\* C24: for every URL and configuration, once download_video was called it
\* is either waiting for a subprocess it started or has returned a boolean;
\* no other state exists, whether a subprocess could not be started, exited
\* non-zero, exited zero with or without a non-empty output file or raised
\* while its output was read, in the primary or the fallback attempt. The
\* value returned is true exactly when the last subprocess exited zero and
\* left a non-empty file.
C24_DownloadVideoReturnsBoolean ==
    /\ job.state \in {"idle", "primary", "fallback", "returned"}
    /\ pc = "call" => job.state = "idle"
    /\ pc = "called" => (Running \/ Returned)
    /\ \A i \in DOMAIN inv : inv[i].outcome \in InvocationOutcomes
    /\ Running => (inv # <<>> /\ LastInvocation.outcome = "running")
    /\ Returned =>
          /\ job.ret \in BOOLEAN
          /\ \A i \in DOMAIN inv : inv[i].outcome # "running"
          /\ job.ret <=> /\ inv # <<>>
                         /\ LastInvocation.outcome = "exit0"
                         /\ LastInvocation.file = "nonempty"

\* C24: the call returned false after the primary subprocess exited non-zero
\* and reading the output of the fallback subprocess raised
C24_Witness ==
    /\ Returned
    /\ job.ret = FALSE
    /\ Len(inv) = 2
    /\ inv[1].outcome = "exit1"
    /\ inv[2].kind = "fallback"
    /\ inv[2].outcome = "readerr"

-----------------------------------------------------------------------------
(* The gates of a download session *)

\* The version query of the session exited with code 0
ProbePassed(p) == Len(p) = 1 /\ p[1].outcome = "exit0"

\* The start prompt was answered y or yes (the answer is trimmed and
\* lower-cased before the comparison)
AnsweredYes(t) == t.op = "start" /\ t.answer \in {"y", "Y", "yes"}

\* C22: the gates of a session are passed in order: a failed dependency
\* check ends the session before the URL file is read or created and before
\* any directory is made; an empty URL list ends it before any directory is
\* made; the start prompt is reached only with a passed check, a non-empty
\* list and a created, writable download directory; the loop is entered
\* only from the prompt on y or yes. A subprocess of a job exists only when
\* all four hold, and a session that stopped at a gate has attempted no job
\* and returns to the main menu.
C22_GatesBeforeDownload ==
    [][/\ (pc = "menu" /\ pc' \in SessionStates) =>
              /\ pc' \in {"pause", "confirm"}
              /\ Len(probes') = 1
              /\ ~ProbePassed(probes') =>
                    /\ pc' = "pause"
                    /\ urls' = <<>>
                    /\ urls_file' = urls_file
                    /\ dirs' = dirs
              /\ (ProbePassed(probes') /\ urls' = <<>>) =>
                    (pc' = "pause" /\ dirs' = dirs)
              /\ pc' = "confirm" =>
                    /\ ProbePassed(probes')
                    /\ urls' # <<>>
                    /\ settings'["download_directory"] \in dirs'
       /\ (pc \notin {"loop", "downloading"} /\ pc' = "loop") =>
              (pc = "confirm" /\ AnsweredYes(typed'))
       /\ (pc = "confirm" /\ typed'.op = "start" /\ ~AnsweredYes(typed')) =>
              pc' = "pause"
       /\ (inv' # <<>> \/ processed' # <<>> \/ paths' # <<>>) =>
              /\ ProbePassed(probes')
              /\ urls' # <<>>
              /\ dl'.dir = settings'["download_directory"]
              /\ dl'.dir \in dirs'
              /\ AnsweredYes(typed')
       /\ pc' = "pause" =>
              (inv' = <<>> /\ processed' = <<>> /\ paths' = <<>>)
       /\ pc = "pause" => pc' \in {"menu", "exited"}]_vars

\* C22: a subprocess of a job runs, after the four gates were passed
C22_Witness ==
    /\ pc = "downloading"
    /\ Running
    /\ ProbePassed(probes)
    /\ typed.answer = "yes"
    /\ dl.dir \in dirs

-----------------------------------------------------------------------------
(* The edits of the settings submenu *)

\* The word typed, without the blanks around it; "" when nothing was typed
EnteredWord(text) ==
    IF NonBlankAt(text) = {} THEN "" ELSE Trimmed(text)[1]

\* The record b with the key k set to v
WithKey(b, k, v) == [j \in Keys |-> IF j = k THEN v ELSE b[j]]

\* C25: an edit of the directory, the quality or the format leaves the
\* record as it was when the input is empty, when the directory cannot be
\* created or written, when the quality is 'info' or not one of best, high,
\* medium, low, when high, medium or low is not confirmed with y or yes, or
\* when the format is not one of mp4, mkv, avi, mov; otherwise it sets that
\* one key, best without a confirmation, quality and format in lower case.
C25_RejectedEditsChangeNothing ==
    \A i \in DOMAIN reads :
        LET c == reads[i]
            w == EnteredWord(c.input.text)
            lw == lower_chunk(w)
        IN  /\ c.input.op = "directory" =>
                  c.after = IF w = "" \/ ~c.input.dirok THEN c.before
                            ELSE WithKey(c.before, "download_directory", w)
            /\ c.input.op = "quality" =>
                  c.after =
                     IF lw \notin QualityEnum THEN c.before
                     ELSE IF lw # "best" /\ c.input.answer \notin {"y", "Y", "yes"}
                     THEN c.before
                     ELSE WithKey(c.before, "video_quality", lw)
            /\ c.input.op = "format" =>
                  c.after = IF lw \notin FormatEnum THEN c.before
                            ELSE WithKey(c.before, "output_format", lw)

\* C25: the quality High was entered and the confirmation answered n: the
\* record keeps its quality best
C25_Witness ==
    /\ reads # <<>>
    /\ reads[1].input.op = "quality"
    /\ reads[1].input.text = <<"High", Blank>>
    /\ reads[1].input.answer = "n"
    /\ reads[1].before["video_quality"] = "best"
    /\ reads[1].after = reads[1].before

\* C26: after an edit of the tool path the ffmpeg_path of the record is not
\* empty: it is the text entered, without the blanks around it and without
\* any test of the file it names, or 'ffmpeg' when nothing was entered,
\* whatever the path was before; the other keys keep their values. An empty
\* input at the other three edits changes nothing.
C26_ToolPathNeverEmpty ==
    \A i \in DOMAIN reads :
        LET c == reads[i]
            w == EnteredWord(c.input.text)
        IN  /\ c.input.op = "path" =>
                  /\ c.after["ffmpeg_path"] # ""
                  /\ c.after = WithKey(c.before, "ffmpeg_path",
                                       IF w = "" THEN "ffmpeg" ELSE w)
            /\ (c.input.op # "path" /\ w = "") => c.after = c.before

\* C26: nothing was entered at the tool-path edit of a record whose path
\* was /usr/bin/ffmpeg: the path is ffmpeg now
C26_Witness ==
    /\ reads # <<>>
    /\ reads[1].input.op = "path"
    /\ reads[1].input.text = <<>>
    /\ reads[1].before["ffmpeg_path"] = "/usr/bin/ffmpeg"
    /\ reads[1].after["ffmpeg_path"] = "ffmpeg"

-----------------------------------------------------------------------------
(* Errors in the main loop *)

\* The settings record and both files
Persistent == <<settings, settings_file, urls_file>>

\* C23 as stated: an error raised inside a dispatched action never ends the
\* application: once the main loop has caught it, the menu is shown again
\* (or the user interrupts); an invalid choice changes neither the record
\* nor a file.
C23_Original ==
    [][/\ pc = "error" =>
              (pc' = "menu" \/ (pc' = "exited" /\ exit_info'.cause = "interrupt"))
       /\ (pc = "menu" /\ pc' = "invalid") => Persistent' = Persistent
       /\ pc = "invalid" => Persistent' = Persistent]_vars

\* C23: an error raised at a prompt of the menu or of a dispatched action
\* does not end the application by itself: it leads to the handler of the
\* main loop, with the settings record and the files as they were, and from
\* there to the main menu when the handler's own prompt returns. The process
\* ends with an error after start-up only from that handler, when its
\* prompt raises too, and then with status 1. An invalid choice leads to a
\* prompt and back to the menu and changes neither the record nor a file.
C23_ErrorsReturnToMenu ==
    [][/\ pc' = "error" => (pc \in Prompts /\ Persistent' = Persistent)
       /\ pc = "error" =>
              /\ pc' \in {"menu", "exited"}
              /\ Persistent' = Persistent
              /\ pc' = "exited" =>
                    \/ exit_info'.cause = "interrupt"
                    \/ exit_info' = [status |-> "1", cause |-> "error",
                                     at |-> "error"]
       /\ (pc' = "exited" /\ exit_info'.cause = "error") =>
              pc \in {"boot", "error"}
       /\ (pc = "menu" /\ pc' = "invalid") =>
              (Persistent' = Persistent /\ dirs' = dirs)
       /\ pc = "invalid" =>
              /\ pc' \in {"menu", "error", "exited"}
              /\ Persistent' = Persistent
              /\ dirs' = dirs]_vars

\* C23: the handler of the main loop has caught an error and waits at its
\* prompt while a format entered in the settings menu is unsaved in memory
C23_Witness ==
    /\ pc = "error"
    /\ settings["output_format"] = "mkv"
    /\ FileRecord(settings_file)["output_format"] = "mp4"
    /\ ENABLED error_continue

====
